---- MODULE Spec2Model ----
(***************************************************************************)
(* A model of SparseOctetMatrix (src/src/sparse_matrix.rs): the hybrid     *)
(* sparse/dense GF(256) matrix of the raptorq decoder.  The matrix is one  *)
(* record M whose fields are the struct's fields; every trait method is a  *)
(* pure operator from a matrix (and its arguments) to the matrix it        *)
(* leaves, and one action applies it.  Vectors are functions on 0..n-1,    *)
(* so every index is the index of the Rust code.                           *)
(***************************************************************************)
EXTENDS Integers, FiniteSets, Sequences, TLC

VARIABLES
    M,      \* the matrix
    pre,    \* the matrix before the last call
    last,   \* the last call: its name, its arguments and how it ended
    steps,  \* the number of calls made
    build   \* "any" until a failed debug assertion was compiled out: "release"

vars == <<M, pre, last, steps, build>>

(***************************************************************************)
(* Bounds of the model: the number of calls after the matrix was handed    *)
(* over, and the size of the matrix given to mul_assign_submatrix.         *)
(***************************************************************************)
MaxOps == 2
MaxSubRows == 2

(***************************************************************************)
(* Octet: GF(256) with the polynomial x^8+x^4+x^3+x^2+1 of RFC 6330.       *)
(* Addition is xor, multiplication is shift-and-add reduced by 0x11D.      *)
(* Values are drawn from the subfield GF(4) = {0, 1, 214, 215} (214 is     *)
(* alpha^85), which is closed under both, so the tables below are total    *)
(* on every value the model can hold.                                      *)
(***************************************************************************)
RECURSIVE Xor(_, _)
Xor(a, b) ==
    IF a = 0 THEN b
    ELSE IF b = 0 THEN a
    ELSE (((a % 2) + (b % 2)) % 2) + 2 * Xor(a \div 2, b \div 2)

RECURSIVE MulRec(_, _, _)
MulRec(a, b, acc) ==
    IF b = 0 THEN acc
    ELSE MulRec(IF 2 * a >= 256 THEN Xor(2 * a, 285) ELSE 2 * a,
                b \div 2,
                IF b % 2 = 1 THEN Xor(acc, a) ELSE acc)

Octets == {0, 1, 214, 215}

NonZeroOctets == Octets \ {0}

AddTable == [a \in Octets |-> [b \in Octets |-> Xor(a, b)]]

MulTable == [a \in Octets |-> [b \in Octets |-> MulRec(a, b, 0)]]

OctetAdd(a, b) == IF a \in Octets /\ b \in Octets THEN AddTable[a][b] ELSE Xor(a, b)

OctetMul(a, b) == IF a \in Octets /\ b \in Octets THEN MulTable[a][b] ELSE MulRec(a, b, 0)

\* Octet::fma: self += a * b
OctetFma(x, a, b) == OctetAdd(x, OctetMul(a, b))

(***************************************************************************)
(* Vec<T> as a function on 0..len-1.                                       *)
(***************************************************************************)
len(v) == Cardinality(DOMAIN v)

Filled(n, x) == [i \in 0..(n - 1) |-> x]

Truncate(v, n) == IF len(v) > n THEN [i \in 0..(n - 1) |-> v[i]] ELSE v

\* extend_from_slice that appends nothing.
Extend_nothing(v, n) == v

Extend(v, n) == [i \in 0..(len(v) + n - 1) |-> IF i < len(v) THEN v[i] ELSE 0]

Push(v, x) == [i \in 0..len(v) |-> IF i < len(v) THEN v[i] ELSE x]

Swap(v, i, j) ==
    [k \in DOMAIN v |-> IF k = i THEN v[j] ELSE IF k = j THEN v[i] ELSE v[k]]

(***************************************************************************)
(* SparseOctetVec: a map from key to Octet, kept sorted by key.            *)
(***************************************************************************)
EmptyVec == [k \in {} |-> 0]

VecInsert(vec, k, value) ==
    [x \in (DOMAIN vec) \cup {k} |-> IF x = k THEN value ELSE vec[x]]

VecGet(vec, k) == IF k \in DOMAIN vec THEN vec[k] ELSE 0

VecRemove(vec, k) == [x \in (DOMAIN vec) \ {k} |-> vec[x]]

VecMulAssign(vec, value) == [x \in DOMAIN vec |-> OctetMul(vec[x], value)]

VecRetain(vec, kept) == [x \in (DOMAIN vec) \cap kept |-> vec[x]]

\* The columns fma adds to the vector: keys of other the vector did not hold
\* and that receive a non-zero product.
VecFmaNew(vec, other, scalar) ==
    {k \in DOMAIN other : k \notin DOMAIN vec /\ OctetMul(other[k], scalar) # 0}

\* self += other * scalar.  An entry that reaches zero stays stored (keepZero)
\* or is removed: the container does either.
VecFma(vec, other, scalar, keepZero) ==
    LET sum(k) == OctetFma(VecGet(vec, k), VecGet(other, k), scalar)
        keys == {k \in DOMAIN vec :
                    k \notin DOMAIN other \/ keepZero \/ sum(k) # 0}
                \cup VecFmaNew(vec, other, scalar)
    IN  [k \in keys |-> sum(k)]

(***************************************************************************)
(* SparseOctetMatrix                                                       *)
(***************************************************************************)
NumSparse(m) == len(m.sparse_elements)

new(height, width, trailing_dense_column_hint, start_dense_row_hint, num_dense_rows_hint) ==
    LET elements == height - num_dense_rows_hint
        col_mapping == [i \in 0..(width - 1) |-> i]
    IN  [height |-> height,
         width |-> width,
         sparse_elements |-> Filled(elements, EmptyVec),
         dense_rows |->
            Filled(num_dense_rows_hint, Filled(width - trailing_dense_column_hint, 0)),
         dense_elements |-> Filled(height, Filled(2 * trailing_dense_column_hint, 0)),
         sparse_column_index |-> Filled(0, {}),
         logical_row_to_physical |->
            [i \in 0..(height - 1) |->
                IF i < start_dense_row_hint THEN i
                ELSE IF i < start_dense_row_hint + num_dense_rows_hint
                     THEN i - start_dense_row_hint + elements
                     ELSE i - num_dense_rows_hint],
         physical_row_to_logical |->
            [p \in 0..(height - 1) |->
                IF p < start_dense_row_hint THEN p
                ELSE IF p >= elements
                     THEN p - elements + start_dense_row_hint
                     ELSE p + num_dense_rows_hint],
         logical_col_to_physical |-> col_mapping,
         physical_col_to_logical |-> col_mapping,
         column_index_disabled |-> TRUE,
         num_dense_columns |-> trailing_dense_column_hint]

\* An out-of-range read of a vector is reported as -1 (the read panics).
get(m, i, j) ==
    LET physical_i == m.logical_row_to_physical[i]
        physical_j == m.logical_col_to_physical[j]
    IN  IF m.width - j <= m.num_dense_columns
        THEN IF m.width - j - 1 \in DOMAIN m.dense_elements[physical_i]
             THEN m.dense_elements[physical_i][m.width - j - 1]
             ELSE -1
        ELSE IF physical_i >= NumSparse(m)
        THEN IF j \in DOMAIN m.dense_rows[physical_i - NumSparse(m)]
             THEN m.dense_rows[physical_i - NumSparse(m)][j]
             ELSE -1
        ELSE VecGet(m.sparse_elements[physical_i], physical_j)

\* set panics after the sparse insert when the index has no entry for the
\* physical column.
set_panics(m, i, j) ==
    LET physical_i == m.logical_row_to_physical[i]
        physical_j == m.logical_col_to_physical[j]
    IN  IF m.width - j <= m.num_dense_columns
        THEN m.width - j - 1 \notin DOMAIN m.dense_elements[physical_i]
        ELSE IF physical_i >= NumSparse(m)
        THEN j \notin DOMAIN m.dense_rows[physical_i - NumSparse(m)]
        ELSE /\ ~m.column_index_disabled
             /\ physical_j \notin DOMAIN m.sparse_column_index

\* set with the sparse key left untranslated: the logical column is used
\* where the physical one belongs.
set_at_logical_column(m, i, j, value) ==
    LET physical_i == m.logical_row_to_physical[i]
    IN  IF m.width - j <= m.num_dense_columns
        THEN IF set_panics(m, i, j) THEN m
             ELSE [m EXCEPT !.dense_elements[physical_i][m.width - j - 1] = value]
        ELSE IF physical_i >= NumSparse(m)
        THEN IF set_panics(m, i, j) THEN m
             ELSE [m EXCEPT !.dense_rows[physical_i - NumSparse(m)][j] = value]
        ELSE LET inserted ==
                    [m EXCEPT !.sparse_elements[physical_i] = VecInsert(@, j, value)]
             IN  IF m.column_index_disabled \/ set_panics(m, i, j)
                 THEN inserted
                 ELSE [inserted EXCEPT !.sparse_column_index[j] = @ \cup {physical_i}]

set(m, i, j, value) ==
    LET physical_i == m.logical_row_to_physical[i]
        physical_j == m.logical_col_to_physical[j]
    IN  IF m.width - j <= m.num_dense_columns
        THEN IF set_panics(m, i, j) THEN m
             ELSE [m EXCEPT !.dense_elements[physical_i][m.width - j - 1] = value]
        ELSE IF physical_i >= NumSparse(m)
        THEN IF set_panics(m, i, j) THEN m
             ELSE [m EXCEPT !.dense_rows[physical_i - NumSparse(m)][j] = value]
        ELSE LET inserted ==
                    [m EXCEPT !.sparse_elements[physical_i] =
                                    VecInsert(@, physical_j, value)]
             IN  IF m.column_index_disabled \/ set_panics(m, i, j)
                 THEN inserted
                 ELSE [inserted EXCEPT !.sparse_column_index[physical_j] =
                                            @ \cup {physical_i}]

\* mul_assign_row never panics for a row in range: the dense tail holds at
\* least num_dense_columns slots for every row (checked by the slice).
mul_assign_row_panics(m, row) ==
    len(m.dense_elements[m.logical_row_to_physical[row]]) < m.num_dense_columns

\* mul_assign_row without the scaling of the dense tail.
mul_assign_row_without_tail(m, row, value) ==
    LET physical_row == m.logical_row_to_physical[row]
    IN  IF physical_row >= NumSparse(m)
        THEN [m EXCEPT !.dense_rows[physical_row - NumSparse(m)] =
                            [c \in DOMAIN @ |-> OctetMul(@[c], value)]]
        ELSE [m EXCEPT !.sparse_elements[physical_row] = VecMulAssign(@, value)]

mul_assign_row(m, row, value) ==
    LET physical_row == m.logical_row_to_physical[row]
        scaled ==
            IF physical_row >= NumSparse(m)
            THEN [m EXCEPT !.dense_rows[physical_row - NumSparse(m)] =
                                [c \in DOMAIN @ |-> OctetMul(@[c], value)]]
            ELSE [m EXCEPT !.sparse_elements[physical_row] = VecMulAssign(@, value)]
    IN  IF mul_assign_row_panics(m, row) THEN scaled
        ELSE [scaled EXCEPT !.dense_elements[physical_row] =
                [c \in DOMAIN @ |->
                    IF c < m.num_dense_columns THEN OctetMul(@[c], value) ELSE @[c]]]

\* swap_rows with the logical table swapped at the physical indices.
swap_rows_at_physical(m, i, j) ==
    LET physical_i == m.logical_row_to_physical[i]
        physical_j == m.logical_row_to_physical[j]
    IN  [m EXCEPT !.logical_row_to_physical = Swap(@, physical_i, physical_j),
                  !.physical_row_to_logical = Swap(@, physical_i, physical_j)]

\* swap_rows with the logical table left as it was.
swap_rows_inverse_only(m, i, j) ==
    LET physical_i == m.logical_row_to_physical[i]
        physical_j == m.logical_row_to_physical[j]
    IN  [m EXCEPT !.physical_row_to_logical = Swap(@, physical_i, physical_j)]

swap_rows(m, i, j) ==
    LET physical_i == m.logical_row_to_physical[i]
        physical_j == m.logical_row_to_physical[j]
    IN  [m EXCEPT !.logical_row_to_physical = Swap(@, i, j),
                  !.physical_row_to_logical = Swap(@, physical_i, physical_j)]

\* Only j is compared with the dense tail.
swap_columns_unimplemented(m, i, j) == j >= m.width - m.num_dense_columns

\* row.swap(i, j) on a dense row panics when an index is outside the row.
swap_columns_out_of_row(m, i, j) ==
    \E r \in DOMAIN m.dense_rows : i \notin DOMAIN m.dense_rows[r] \/ j \notin DOMAIN m.dense_rows[r]

swap_columns_panics(m, i, j) ==
    swap_columns_unimplemented(m, i, j) \/ swap_columns_out_of_row(m, i, j)

\* swap_columns without the swap inside the dense rows.
swap_columns_tables_only(m, i, j) ==
    LET physical_i == m.logical_col_to_physical[i]
        physical_j == m.logical_col_to_physical[j]
    IN  IF swap_columns_unimplemented(m, i, j) THEN m
        ELSE [m EXCEPT !.logical_col_to_physical = Swap(@, i, j),
                       !.physical_col_to_logical = Swap(@, physical_i, physical_j)]

swap_columns(m, i, j) ==
    LET physical_i == m.logical_col_to_physical[i]
        physical_j == m.logical_col_to_physical[j]
        tables == [m EXCEPT !.logical_col_to_physical = Swap(@, i, j),
                            !.physical_col_to_logical = Swap(@, physical_i, physical_j)]
    IN  IF swap_columns_unimplemented(m, i, j) THEN m
        ELSE IF swap_columns_out_of_row(m, i, j) THEN tables
        ELSE [tables EXCEPT !.dense_rows = [r \in DOMAIN @ |-> Swap(@[r], i, j)]]

\* insert_last on an index entry that does not exist panics.
enable_panics(m) ==
    \E r \in DOMAIN m.sparse_elements :
        \E k \in DOMAIN m.sparse_elements[r] : k \notin 0..(m.width - 1)

\* The (row, key) pairs are visited row by row, keys ascending; on a panic the
\* pairs before the first key without an entry have been inserted.
enable_column_acccess_acceleration(m) ==
    LET bad == UNION {{<<r, k>> : k \in (DOMAIN m.sparse_elements[r]) \ (0..(m.width - 1))} :
                        r \in DOMAIN m.sparse_elements}
        before(r, k) ==
            \A b \in bad : r < b[1] \/ (r = b[1] /\ k < b[2])
    IN  [m EXCEPT !.column_index_disabled = FALSE,
                  !.sparse_column_index =
                        [c \in 0..(m.width - 1) |->
                            {r \in DOMAIN m.sparse_elements :
                                c \in DOMAIN m.sparse_elements[r] /\ before(r, c)}]]

\* The insertions in descending order of the rows.
RECURSIVE enable_insertions_descending(_, _, _)
enable_insertions_descending(m, physical_col, rows) ==
    IF rows = 0 THEN Filled(0, 0)
    ELSE LET rest == enable_insertions_descending(m, physical_col, rows - 1)
         IN  IF physical_col \in DOMAIN m.sparse_elements[rows - 1]
             THEN [i \in 0..len(rest) |-> IF i = 0 THEN rows - 1 ELSE rest[i - 1]]
             ELSE rest

\* The rows handed to insert_last for the entry of physical_col, in the order
\* of the calls, by the first `rows` rounds of the outer loop of
\* enable_column_acccess_acceleration.
RECURSIVE enable_insertions(_, _, _)
enable_insertions(m, physical_col, rows) ==
    IF rows = 0 THEN Filled(0, 0)
    ELSE LET before == enable_insertions(m, physical_col, rows - 1)
             physical_row == rows - 1
         IN  IF physical_col \in DOMAIN m.sparse_elements[physical_row]
             THEN Push(before, physical_row)
             ELSE before

disable_column_acccess_acceleration(m) ==
    [m EXCEPT !.column_index_disabled = TRUE,
              !.sparse_column_index = Filled(0, {})]

\* verify(): TRUE when every debug assertion holds (and no index is out of
\* range); it is compiled only with debug_assertions.
verify(m) ==
    \/ m.column_index_disabled
    \/ /\ \A row \in DOMAIN m.sparse_elements :
            \A col \in DOMAIN m.sparse_elements[row] :
                m.sparse_elements[row][col] # 0 =>
                    /\ col \in DOMAIN m.sparse_column_index
                    /\ row \in m.sparse_column_index[col]
       /\ \A i \in DOMAIN m.dense_rows :
            \A logical_col \in DOMAIN m.dense_rows[i] :
                /\ logical_col \in DOMAIN m.logical_col_to_physical
                /\ m.logical_col_to_physical[logical_col] \in DOMAIN m.sparse_column_index
                /\ (i + NumSparse(m)) \notin
                        m.sparse_column_index[m.logical_col_to_physical[logical_col]]

\* The conversion with the logical column kept as the key.
DenseToSparse_untranslated(m, row) ==
    [k \in {c \in DOMAIN row : row[c] # 0} |-> row[k]]

\* A dense row (logical columns) as a sparse vector (physical columns): the
\* non-zero values, inserted in logical column order.
DenseToSparse(m, row) ==
    LET nonzero == {c \in DOMAIN row : row[c] # 0}
        last_of(k) == CHOOSE c \in nonzero :
                        /\ m.logical_col_to_physical[c] = k
                        /\ \A d \in nonzero : m.logical_col_to_physical[d] = k => d <= c
    IN  [k \in {m.logical_col_to_physical[c] : c \in nonzero} |-> row[last_of(k)]]

hint_compact_dense_rows(m) ==
    [m EXCEPT !.sparse_elements =
                    [p \in 0..(NumSparse(m) + len(m.dense_rows) - 1) |->
                        IF p < NumSparse(m) THEN m.sparse_elements[p]
                        ELSE DenseToSparse(m, m.dense_rows[p - NumSparse(m)])],
              !.dense_rows = Filled(0, Filled(0, 0))]

ExtendBy == 10

\* The assertions of the freeze without the check of the column.
hint_column_dense_and_frozen_asserts_index_only(m, i) ==
    m.column_index_disabled

\* The two assertions of hint_column_dense_and_frozen.
hint_column_dense_and_frozen_asserts(m, i) ==
    /\ m.width - m.num_dense_columns - 1 = i
    /\ ~m.column_index_disabled

\* The index has one entry per column of the current width; the physical
\* column of i may lie beyond it.
hint_column_dense_and_frozen_panics(m, i) ==
    \/ ~hint_column_dense_and_frozen_asserts(m, i)
    \/ m.logical_col_to_physical[i] \notin DOMAIN m.sparse_column_index

hint_column_dense_and_frozen(m, i) ==
    IF ~hint_column_dense_and_frozen_asserts(m, i) THEN m
    ELSE IF hint_column_dense_and_frozen_panics(m, i)
    THEN [m EXCEPT !.num_dense_columns = @ + 1,
                   !.dense_elements =
                        [r \in DOMAIN @ |->
                            IF len(@[r]) < m.num_dense_columns + 1
                            THEN Extend(@[r], ExtendBy) ELSE @[r]]]
    ELSE
    LET num_dense_columns == m.num_dense_columns + 1
        physical_i == m.logical_col_to_physical[i]
        extended == [r \in DOMAIN m.dense_elements |->
                        IF len(m.dense_elements[r]) < num_dense_columns
                        THEN Extend(m.dense_elements[r], ExtendBy)
                        ELSE m.dense_elements[r]]
        moved(r) ==
            /\ r < NumSparse(m)
            /\ r \in m.sparse_column_index[physical_i]
            /\ physical_i \in DOMAIN m.sparse_elements[r]
    IN  [m EXCEPT
            !.num_dense_columns = num_dense_columns,
            !.sparse_elements =
                [r \in DOMAIN @ |-> IF moved(r) THEN VecRemove(@[r], physical_i) ELSE @[r]],
            !.dense_rows =
                [r \in DOMAIN @ |-> [@[r] EXCEPT ![i] = 0]],
            !.dense_elements =
                [r \in DOMAIN @ |->
                    IF moved(r)
                    THEN [extended[r] EXCEPT ![num_dense_columns - 1] =
                                m.sparse_elements[r][physical_i]]
                    ELSE IF r >= NumSparse(m) /\ r < m.height
                    THEN [extended[r] EXCEPT ![num_dense_columns - 1] =
                                m.dense_rows[r - NumSparse(m)][i]]
                    ELSE extended[r]]]

\* other.get_row_iter(row, 0, rows) of mul_assign_submatrix: the entries of
\* other's sparse row whose logical column is in range, keyed by physical column.
get_row_iter_panics(m, row, start_col, end_col) ==
    \/ end_col > m.width - m.num_dense_columns
    \/ m.logical_row_to_physical[row] >= NumSparse(m)

get_row_iter(m, row, start_col, end_col) ==
    LET sparse_elements == m.sparse_elements[m.logical_row_to_physical[row]]
    IN  {<<k, m.physical_col_to_logical[k], sparse_elements[k]>> :
            k \in {x \in DOMAIN sparse_elements :
                        /\ m.physical_col_to_logical[x] >= start_col
                        /\ m.physical_col_to_logical[x] < end_col}}

\* count_ones_and_nonzeros panics on a range that reaches the dense tail and,
\* for a dense row, on a slice outside the row.
count_ones_and_nonzeros_panics(m, row, start_col, end_col) ==
    \/ end_col > m.width - m.num_dense_columns
    \/ /\ m.logical_row_to_physical[row] >= NumSparse(m)
       /\ \/ start_col > end_col
          \/ end_col > len(m.dense_rows[m.logical_row_to_physical[row] - NumSparse(m)])

\* count_ones_and_nonzeros with every stored entry of a sparse row counted as
\* non-zero.
count_ones_and_nonzeros_of_keys(m, row, start_col, end_col) ==
    LET physical_row == m.logical_row_to_physical[row]
    IN  IF physical_row >= NumSparse(m)
        THEN LET dense == m.dense_rows[physical_row - NumSparse(m)]
             IN  <<Cardinality({c \in start_col..(end_col - 1) : dense[c] = 1}),
                   Cardinality({c \in start_col..(end_col - 1) : dense[c] # 0})>>
        ELSE LET sparse == m.sparse_elements[physical_row]
                 inside == {physical_col \in DOMAIN sparse :
                                /\ m.physical_col_to_logical[physical_col] >= start_col
                                /\ m.physical_col_to_logical[physical_col] < end_col}
             IN  <<Cardinality({physical_col \in inside : sparse[physical_col] = 1}),
                   Cardinality(inside)>>

\* <<ones, nonzeros>>
count_ones_and_nonzeros(m, row, start_col, end_col) ==
    LET physical_row == m.logical_row_to_physical[row]
    IN  IF physical_row >= NumSparse(m)
        THEN LET slice == {c \in start_col..(end_col - 1) : TRUE}
                 dense == m.dense_rows[physical_row - NumSparse(m)]
             IN  <<Cardinality({c \in slice : dense[c] = 1}),
                   Cardinality({c \in slice : dense[c] # 0})>>
        ELSE LET sparse == m.sparse_elements[physical_row]
                 inside == {physical_col \in DOMAIN sparse :
                                /\ m.physical_col_to_logical[physical_col] >= start_col
                                /\ m.physical_col_to_logical[physical_col] < end_col}
             IN  <<Cardinality({physical_col \in inside : sparse[physical_col] = 1}),
                   Cardinality({physical_col \in inside : sparse[physical_col] # 0})>>

\* The logical rows BorrowedKeyIter::new_sparse yields: the keys of the index
\* entry and every physical row from sparse_rows to height, translated to
\* logical rows and restricted to [start_row, end_row).
BorrowedKeyIter(keys, start_row, end_row, sparse_rows, height, physical_row_to_logical) ==
    {physical_row_to_logical[physical_row] :
        physical_row \in {p \in keys \cup (sparse_rows..(height - 1)) :
                            /\ p \in DOMAIN physical_row_to_logical
                            /\ physical_row_to_logical[p] >= start_row
                            /\ physical_row_to_logical[p] < end_row}}

get_col_index_iter_panics(m, col, start_row, end_row) ==
    \/ m.column_index_disabled
    \/ m.logical_col_to_physical[col] \notin DOMAIN m.sparse_column_index

get_col_index_iter(m, col, start_row, end_row) ==
    LET physical_col == m.logical_col_to_physical[col]
    IN  BorrowedKeyIter(m.sparse_column_index[physical_col], start_row, end_row,
                        NumSparse(m), m.height, m.physical_row_to_logical)

\* The accumulation of one destination row: the entries of other's row are
\* taken in storage (key) order and each non-zero scalar is fused into the
\* temporaries <<temp_sparse, temp_dense>>.
RECURSIVE Accumulate(_, _, _, _)
Accumulate(m, entries, temp, keepZero) ==
    IF entries = {} THEN temp
    ELSE LET e == CHOOSE x \in entries : \A y \in entries : x[1] <= y[1]
             physical_i == m.logical_row_to_physical[e[2]]
             scalar == e[3]
             fused ==
                IF scalar # 0
                THEN <<VecFma(temp[1], m.sparse_elements[physical_i], scalar, keepZero),
                       [c \in DOMAIN temp[2] |->
                            OctetFma(temp[2][c], m.dense_elements[physical_i][c], scalar)]>>
                ELSE temp
         IN  Accumulate(m, entries \ {e}, fused, keepZero)

\* The temporaries with the last column of other left out.
Temporaries_short(m, other, rows, keepZero) ==
    [row \in 0..(rows - 1) |->
        Accumulate(m, get_row_iter(other, row, 0, rows - 1),
                   <<EmptyVec, Filled(m.num_dense_columns, 0)>>, keepZero)]

\* temp_sparse and temp_dense, both computed from the matrix before any commit.
Temporaries(m, other, rows, keepZero) ==
    [row \in 0..(rows - 1) |->
        Accumulate(m, get_row_iter(other, row, 0, rows),
                   <<EmptyVec, Filled(m.num_dense_columns, 0)>>, keepZero)]

\* The commit loop, rows in reverse; an index insert for a column without an
\* entry panics and ends it.
RECURSIVE Commit(_, _, _)
Commit(m, temps, row) ==
    IF row < 0 THEN m
    ELSE LET physical_row == m.logical_row_to_physical[row]
             assigned == [m EXCEPT !.sparse_elements[physical_row] = temps[row][1],
                                   !.dense_elements[physical_row] = temps[row][2]]
             keys == DOMAIN temps[row][1]
             bad == keys \ DOMAIN m.sparse_column_index
             indexed ==
                [assigned EXCEPT !.sparse_column_index =
                    [c \in DOMAIN @ |->
                        IF c \in keys /\ (\A k \in bad : c < k)
                        THEN @[c] \cup {physical_row} ELSE @[c]]]
         IN  IF m.column_index_disabled THEN Commit(assigned, temps, row - 1)
             ELSE IF bad # {} THEN indexed
             ELSE Commit(indexed, temps, row - 1)

\* The assertions and unimplemented paths, all before the first mutation.
mul_assign_submatrix_rejects(m, other, rows) ==
    \/ rows # other.height
    \/ rows # other.width
    \/ rows > m.height
    \/ other.num_dense_columns # 0
    \/ len(m.dense_rows) # 0
    \/ \E row \in 0..(rows - 1) : get_row_iter_panics(other, row, 0, rows)
    \/ \E row \in 0..(rows - 1) :
            len(m.dense_elements[m.logical_row_to_physical[row]]) < m.num_dense_columns

mul_assign_submatrix_panics(m, other, rows) ==
    \/ mul_assign_submatrix_rejects(m, other, rows)
    \/ /\ ~m.column_index_disabled
       /\ \E row \in 0..(rows - 1), keepZero \in BOOLEAN :
            ~(DOMAIN Temporaries(m, other, rows, keepZero)[row][1]
                    \subseteq DOMAIN m.sparse_column_index)

mul_assign_submatrix(m, other, rows, keepZero) ==
    IF mul_assign_submatrix_rejects(m, other, rows) THEN m
    ELSE Commit(m, Temporaries(m, other, rows, keepZero), rows - 1)

\* The rejections of fma_rows without assert_ne!(dest, multiplicand).
fma_rows_rejects_without_assert_ne(m, dest, multiplicand) ==
    \/ m.logical_row_to_physical[multiplicand] >= NumSparse(m)
    \/ len(m.dense_elements[m.logical_row_to_physical[dest]]) < m.num_dense_columns
    \/ len(m.dense_elements[m.logical_row_to_physical[multiplicand]]) < m.num_dense_columns

\* assert_ne!(dest, multiplicand), the todo!() for a dense multiplicand and the
\* [..num_dense_columns] slices of the dense tail: all before the first mutation.
fma_rows_rejects(m, dest, multiplicand) ==
    \/ dest = multiplicand
    \/ m.logical_row_to_physical[multiplicand] >= NumSparse(m)
    \/ len(m.dense_elements[m.logical_row_to_physical[dest]]) < m.num_dense_columns
    \/ len(m.dense_elements[m.logical_row_to_physical[multiplicand]]) < m.num_dense_columns

\* The keys of the multiplicand whose update indexes outside the dense
\* destination row, or outside the column index for a sparse destination.
fma_rows_out_of_range(m, dest, multiplicand, scalar) ==
    LET physical_dest == m.logical_row_to_physical[dest]
        temp_row == m.sparse_elements[m.logical_row_to_physical[multiplicand]]
    IN  IF physical_dest >= NumSparse(m)
        THEN {k \in DOMAIN temp_row :
                /\ temp_row[k] # 0
                /\ m.physical_col_to_logical[k]
                        \notin DOMAIN m.dense_rows[physical_dest - NumSparse(m)]}
        ELSE IF m.column_index_disabled THEN {}
        ELSE VecFmaNew(m.sparse_elements[physical_dest], temp_row, scalar)
                \ DOMAIN m.sparse_column_index

fma_rows_panics(m, dest, multiplicand, scalar) ==
    \/ fma_rows_rejects(m, dest, multiplicand)
    \/ fma_rows_out_of_range(m, dest, multiplicand, scalar) # {}

\* The dense tail of the destination with the multiplicand's added unscaled.
fma_dense_tail_unscaled(m, physical_dest, physical_multiplicand, scalar) ==
    [m EXCEPT !.dense_elements[physical_dest] =
        [c \in DOMAIN @ |->
            IF c < m.num_dense_columns
            THEN OctetAdd(@[c], m.dense_elements[physical_multiplicand][c])
            ELSE @[c]]]

\* fused_addassign_mul_scalar on the [..num_dense_columns] slices of the dense
\* tails of the two rows.
fma_dense_tail(m, physical_dest, physical_multiplicand, scalar) ==
    [m EXCEPT !.dense_elements[physical_dest] =
        [c \in DOMAIN @ |->
            IF c < m.num_dense_columns
            THEN OctetFma(@[c], m.dense_elements[physical_multiplicand][c], scalar)
            ELSE @[c]]]

\* Keys are visited in ascending order; the updates before the first key out
\* of range are made.
fma_rows(m, dest, multiplicand, scalar, keepZero) ==
    IF fma_rows_rejects(m, dest, multiplicand) THEN m
    ELSE
    LET physical_dest == m.logical_row_to_physical[dest]
        physical_multiplicand == m.logical_row_to_physical[multiplicand]
        temp_row == m.sparse_elements[physical_multiplicand]
        bad == fma_rows_out_of_range(m, dest, multiplicand, scalar)
        reached(k) == \A b \in bad : k < b
        dense == fma_dense_tail(m, physical_dest, physical_multiplicand, scalar)
    IN  IF physical_dest >= NumSparse(m)
        THEN LET src(logical_col) ==
                    {k \in DOMAIN temp_row :
                        /\ temp_row[k] # 0
                        /\ reached(k)
                        /\ m.physical_col_to_logical[k] = logical_col}
             IN  [dense EXCEPT !.dense_rows[physical_dest - NumSparse(m)] =
                    [c \in DOMAIN @ |->
                        IF src(c) # {}
                        THEN OctetFma(@[c], temp_row[CHOOSE k \in src(c) : TRUE], scalar)
                        ELSE @[c]]]
        ELSE LET new_columns == VecFmaNew(m.sparse_elements[physical_dest], temp_row, scalar)
             IN  [dense EXCEPT
                    !.sparse_elements[physical_dest] = VecFma(@, temp_row, scalar, keepZero),
                    !.sparse_column_index =
                        IF m.column_index_disabled THEN @
                        ELSE [c \in DOMAIN @ |->
                                IF c \in new_columns /\ reached(c)
                                THEN @[c] \cup {physical_dest}
                                ELSE @[c]]]

\* The assertions of resize without the check of the column index.
resize_panics_on_bounds_only(m, new_height, new_width) ==
    \/ new_height > m.height
    \/ new_width > m.width

resize_panics(m, new_height, new_width) ==
    \/ new_height > m.height
    \/ new_width > m.width
    \/ ~m.column_index_disabled

resize(m, new_height, new_width) ==
    IF resize_panics(m, new_height, new_width) THEN m
    ELSE
    LET original_sparse_len == NumSparse(m)
        \* the physical row a retained logical row is taken from: the loops run
        \* from the physical tail backward, so the lowest physical row is kept
        from(rows, logical_row) ==
            CHOOSE p \in rows :
                /\ m.physical_row_to_logical[p] = logical_row
                /\ \A q \in rows : m.physical_row_to_logical[q] = logical_row => p <= q
        sparse_rows == DOMAIN m.sparse_elements
        dense_rows == {original_sparse_len + i : i \in DOMAIN m.dense_rows}
        held(rows, logical_row) ==
            \E p \in rows : m.physical_row_to_logical[p] = logical_row
        new_sparse ==
            [logical_row \in 0..(new_height - 1) |->
                IF held(dense_rows, logical_row)
                THEN DenseToSparse(m,
                        m.dense_rows[from(dense_rows, logical_row) - original_sparse_len])
                ELSE m.sparse_elements[from(sparse_rows, logical_row)]]
        new_dense ==
            [logical_row \in 0..(new_height - 1) |->
                m.dense_elements[from(DOMAIN m.dense_elements, logical_row)]]
        columns_to_remove == m.width - new_width
        dense_columns_to_remove ==
            IF m.num_dense_columns < columns_to_remove
            THEN m.num_dense_columns ELSE columns_to_remove
        sparse_columns_to_remove == columns_to_remove - dense_columns_to_remove
        sparse_width == m.width - m.num_dense_columns - sparse_columns_to_remove
        keep(col) == m.physical_col_to_logical[col] < sparse_width
    IN  [m EXCEPT
            !.sparse_elements =
                [r \in DOMAIN new_sparse |->
                    IF sparse_columns_to_remove > 0
                    THEN VecRetain(new_sparse[r], {col \in DOMAIN new_sparse[r] : keep(col)})
                    ELSE new_sparse[r]],
            !.dense_rows = Filled(0, Filled(0, 0)),
            !.dense_elements =
                [r \in DOMAIN new_dense |->
                    Truncate(new_dense[r], m.num_dense_columns - dense_columns_to_remove)],
            !.logical_row_to_physical = [i \in 0..(new_height - 1) |-> i],
            !.physical_row_to_logical = [i \in 0..(new_height - 1) |-> i],
            !.num_dense_columns = @ - dense_columns_to_remove,
            !.height = new_height,
            !.width = new_width]

(***************************************************************************)
(* The state machine.  A call either returns ("ok"), panics ("panic": an   *)
(* assertion, an unimplemented path or an index out of range) or, in a     *)
(* build with debug_assertions, fails verify() ("debug_assert").  A panic  *)
(* ends the run.                                                           *)
(***************************************************************************)
Call(op, a, b, c, result) == [op |-> op, a |-> a, b |-> b, c |-> c, result |-> result]

Outcome(panics) == IF panics THEN "panic" ELSE "ok"

Rows(m) == 0..(m.height - 1)

Cols(m) == 0..(m.width - 1)

Running == last.result = "ok" /\ steps < MaxOps

\* The step of a call that does not run verify().
Step(call, after) ==
    /\ Running
    /\ M' = after
    /\ pre' = M
    /\ last' = call
    /\ steps' = steps + 1
    /\ UNCHANGED build

\* The step of a call that ends with verify() under debug_assertions: when the
\* assertions fail, a debug build panics after the mutation and a release
\* build returns.
VerifiedStep(call, after) ==
    /\ Running
    /\ M' = after
    /\ pre' = M
    /\ steps' = steps + 1
    /\ IF call.result # "ok" \/ verify(after)
       THEN last' = call /\ UNCHANGED build
       ELSE \/ last' = call /\ build' = "release"
            \/ /\ build = "any"
               /\ last' = [call EXCEPT !.result = "debug_assert"]
               /\ UNCHANGED build

(***************************************************************************)
(* The matrix as the solver receives it: constructed, populated with set   *)
(* (no cell, or every cell with a non-zero value) and with the column      *)
(* index enabled or not.                                                   *)
(***************************************************************************)
Height == 3

Width == 3

TailHints == 0..2

DenseRowHints == {<<0, 0>>, <<1, 1>>}

SetValues == {0, 214}

Scalars == {0, 1, 214}

RECURSIVE SetAll(_, _, _)
SetAll(m, cells, value) ==
    IF cells = {} THEN m
    ELSE LET cell == CHOOSE x \in cells :
                        \A y \in cells : x[1] < y[1] \/ (x[1] = y[1] /\ x[2] <= y[2])
         IN  SetAll(set(m, cell[1], cell[2], value[cell]), cells \ {cell}, value)

Populated(m) ==
    LET cells == Rows(m) \X Cols(m)
    IN  SetAll(m, cells, [c \in cells |-> <<1, 214, 215>>[((c[1] + c[2]) % 3) + 1]])

Init ==
    /\ \E tail \in TailHints, dense \in DenseRowHints, populate \in BOOLEAN, enable \in BOOLEAN :
            LET constructed == new(Height, Width, tail, dense[1], dense[2])
                populated == IF populate THEN Populated(constructed) ELSE constructed
            IN  /\ M = IF enable THEN enable_column_acccess_acceleration(populated)
                       ELSE populated
                /\ last = Call("new", tail, dense, <<populate, enable>>, "ok")
    /\ pre = M
    /\ steps = 0
    /\ build = "any"

Set ==
    /\ Running
    /\ \E i \in Rows(M), j \in Cols(M), value \in SetValues :
           Step(Call("set", i, j, value, Outcome(set_panics(M, i, j))),
                set(M, i, j, value))

MulAssignRow ==
    /\ Running
    /\ \E row \in Rows(M), value \in Scalars :
           Step(Call("mul_assign_row", row, value, 0, Outcome(mul_assign_row_panics(M, row))),
                mul_assign_row(M, row, value))

SwapRows ==
    /\ Running
    /\ \E i \in Rows(M), j \in Rows(M) :
           /\ i < j
           /\ Step(Call("swap_rows", i, j, 0, "ok"), swap_rows(M, i, j))

SwapColumns ==
    /\ Running
    /\ \E i \in Cols(M), j \in Cols(M) :
           /\ i # j
           /\ Step(Call("swap_columns", i, j, 0, Outcome(swap_columns_panics(M, i, j))),
                   swap_columns(M, i, j))

EnableColumnAccessAcceleration ==
    /\ Running
    /\ Step(Call("enable_column_acccess_acceleration", 0, 0, 0, Outcome(enable_panics(M))),
            enable_column_acccess_acceleration(M))

DisableColumnAccessAcceleration ==
    /\ Running
    /\ Step(Call("disable_column_acccess_acceleration", 0, 0, 0, "ok"),
            disable_column_acccess_acceleration(M))

HintCompactDenseRows ==
    /\ Running
    /\ Step(Call("hint_compact_dense_rows", 0, 0, 0, "ok"), hint_compact_dense_rows(M))

HintColumnDenseAndFrozen ==
    /\ Running
    /\ \E i \in Cols(M) :
           Step(Call("hint_column_dense_and_frozen", i, 0, 0,
                     Outcome(hint_column_dense_and_frozen_panics(M, i))),
                hint_column_dense_and_frozen(M, i))

\* The matrices handed to mul_assign_submatrix: new(rows, rows, 0, 0, 0) with
\* its outer columns swapped and then every cell set (diag on the diagonal,
\* upper above it, lower below it).
Other(rows, diag, upper, lower) ==
    LET cells == (0..(rows - 1)) \X (0..(rows - 1))
        value == [c \in cells |->
                    IF c[1] = c[2] THEN diag ELSE IF c[1] < c[2] THEN upper ELSE lower]
        constructed == new(rows, rows, 0, 0, 0)
    IN  SetAll(IF rows > 1 THEN swap_columns(constructed, 0, rows - 1) ELSE constructed,
               cells, value)

Others ==
    [rows \in 1..MaxSubRows |->
        {Other(rows, diag, upper, lower) :
            diag \in {1, 214}, upper \in {0, 1}, lower \in {0, 214}}]

\* The calls of mul_assign_submatrix the assertions reject: other of another
\* size than rows, and other with a dense tail.  <<other, rows>>
RejectedOthers ==
    {<<Other(1, 1, 0, 0), 2>>, <<Other(2, 1, 1, 214), 1>>, <<new(1, 1, 1, 0, 0), 1>>}

\* An entry that reaches zero is kept or removed by the sparse vector: both
\* results are successors.
MulAssignSubmatrix ==
    /\ Running
    /\ \E pair \in RejectedOthers
                    \cup UNION {{<<other, rows>> : other \in Others[rows]} :
                                    rows \in 1..MaxSubRows} :
           LET other == pair[1]
               rows == pair[2]
           IN  \E after \in {mul_assign_submatrix(M, other, rows, keepZero) :
                               keepZero \in BOOLEAN} :
                   VerifiedStep(Call("mul_assign_submatrix", other, rows, 0,
                                     Outcome(mul_assign_submatrix_panics(M, other, rows))),
                                after)

FmaRows ==
    /\ Running
    /\ \E dest \in Rows(M), multiplicand \in Rows(M), scalar \in Scalars :
           \E after \in {fma_rows(M, dest, multiplicand, scalar, keepZero) :
                           keepZero \in BOOLEAN} :
               VerifiedStep(Call("fma_rows", dest, multiplicand, scalar,
                                 Outcome(fma_rows_panics(M, dest, multiplicand, scalar))),
                            after)

Resize ==
    /\ Running
    /\ \E new_height \in 0..Height, new_width \in 0..Width :
           Step(Call("resize", new_height, new_width, 0,
                     Outcome(resize_panics(M, new_height, new_width))),
                resize(M, new_height, new_width))

\* The queries leave the matrix as it is.
CountOnesAndNonzeros ==
    /\ Running
    /\ \E row \in Rows(M), start_col \in {0, 1},
          end_col \in {M.width - M.num_dense_columns, M.width} :
           /\ start_col <= end_col
           /\ Step(Call("count_ones_and_nonzeros", row, start_col, end_col,
                        Outcome(count_ones_and_nonzeros_panics(M, row, start_col, end_col))),
                   M)

GetRowIter ==
    /\ Running
    /\ \E row \in Rows(M), end_col \in {M.width - M.num_dense_columns, M.width} :
           Step(Call("get_row_iter", row, 0, end_col,
                     Outcome(get_row_iter_panics(M, row, 0, end_col))),
                M)

GetColIndexIter ==
    /\ Running
    /\ \E col \in Cols(M), start_row \in {0, 1}, end_row \in {M.height - 1, M.height} :
           /\ start_row <= end_row
           /\ Step(Call("get_col_index_iter", col, start_row, end_row,
                        Outcome(get_col_index_iter_panics(M, col, start_row, end_row))),
                   M)

Next ==
    \/ Set
    \/ MulAssignRow
    \/ SwapRows
    \/ SwapColumns
    \/ EnableColumnAccessAcceleration
    \/ DisableColumnAccessAcceleration
    \/ HintCompactDenseRows
    \/ HintColumnDenseAndFrozen
    \/ MulAssignSubmatrix
    \/ FmaRows
    \/ Resize
    \/ CountOnesAndNonzeros
    \/ GetRowIter
    \/ GetColIndexIter

Spec == Init /\ [][Next]_vars

(***************************************************************************)
(* The claims.  A claim about one call is stated on the state the call     *)
(* leaves: last names the call and pre is the matrix it was made on.       *)
(***************************************************************************)
Returned(op) == last.op = op /\ last.result = "ok"

Cells(m) == Rows(m) \X Cols(m)

InTail(m, j) == m.width - j <= m.num_dense_columns

IsDenseRow(m, i) == m.logical_row_to_physical[i] >= NumSparse(m)

NonZeroCount(m) == Cardinality({c \in Cells(m) : get(m, c[1], c[2]) # 0})

\* C1: after set(i, j, v) returns, get(i, j) is v and get of every other cell
\* is what it was before the call.
C1_GetSetRoundTrip ==
    Returned("set") =>
        /\ get(M, last.a, last.b) = last.c
        /\ \A c \in Cells(M) :
                c # <<last.a, last.b>> => get(M, c[1], c[2]) = get(pre, c[1], c[2])

\* C1 witness: a set of a non-zero value, different from the old one, in a
\* sparse row whose column was swapped before.
C1_Witness ==
    /\ Returned("set")
    /\ ~InTail(M, last.b)
    /\ ~IsDenseRow(M, last.a)
    /\ M.logical_col_to_physical[last.b] # last.b
    /\ last.c # 0
    /\ get(pre, last.a, last.b) # last.c
    /\ get(M, last.a, last.b) = last.c

\* C2: after fma_rows(d, m, s) returns, every column c of row d holds
\* old get(d, c) + old get(m, c) * s, and every other row (m included) is
\* unchanged.
C2_FmaLinearity ==
    Returned("fma_rows") =>
        /\ \A c \in Cols(M) :
                get(M, last.a, c) =
                    OctetAdd(get(pre, last.a, c), OctetMul(get(pre, last.b, c), last.c))
        /\ \A r \in Rows(M) \ {last.a} :
                \A c \in Cols(M) : get(M, r, c) = get(pre, r, c)

\* C2 witness: an fma into a dense row with a scalar other than zero and one
\* that changed a dense-tail column and a column outside the tail.
C2_Witness ==
    /\ Returned("fma_rows")
    /\ IsDenseRow(M, last.a)
    /\ last.c \notin {0, 1}
    /\ \E c \in Cols(M) : InTail(M, c) /\ get(M, last.a, c) # get(pre, last.a, c)
    /\ \E c \in Cols(M) : ~InTail(M, c) /\ get(M, last.a, c) # get(pre, last.a, c)

\* C3: after resize(new_height, new_width) returns, every cell of the
\* retained submatrix reads what it read before.
C3_ResizePreserves ==
    Returned("resize") =>
        \A i \in 0..(last.a - 1), j \in 0..(last.b - 1) : get(M, i, j) = get(pre, i, j)

\* C4: while the column index is enabled, every sparse row is in the index
\* entry of every physical column at which it stores a non-zero value.
C4_ColumnIndexSound ==
    (last.result = "ok" /\ ~M.column_index_disabled) =>
        \A row \in DOMAIN M.sparse_elements :
            \A col \in DOMAIN M.sparse_elements[row] :
                M.sparse_elements[row][col] # 0 =>
                    /\ col \in DOMAIN M.sparse_column_index
                    /\ row \in M.sparse_column_index[col]

\* C5: after hint_column_dense_and_frozen(col) returns, every row reads in col
\* what it read before, and num_dense_columns has grown by one.
C5_FreezePreserves ==
    Returned("hint_column_dense_and_frozen") =>
        /\ \A row \in Rows(M) : get(M, row, last.a) = get(pre, row, last.a)
        /\ M.num_dense_columns = pre.num_dense_columns + 1

\* C6: after swap_rows(i, j), rows i and j have exchanged their values, every
\* other row is unchanged, as many cells are non-zero as before, and only the
\* two row tables differ from the matrix before.
C6_SwapRowsPermutes ==
    Returned("swap_rows") =>
        /\ \A c \in Cols(M) :
                /\ get(M, last.a, c) = get(pre, last.b, c)
                /\ get(M, last.b, c) = get(pre, last.a, c)
        /\ \A r \in Rows(M) \ {last.a, last.b} :
                \A c \in Cols(M) : get(M, r, c) = get(pre, r, c)
        /\ NonZeroCount(M) = NonZeroCount(pre)
        /\ [M EXCEPT !.logical_row_to_physical = pre.logical_row_to_physical,
                     !.physical_row_to_logical = pre.physical_row_to_logical] = pre

\* C6 witness: a swap of a dense row with a sparse row that read differently.
C6_Witness ==
    /\ Returned("swap_rows")
    /\ IsDenseRow(pre, last.a) # IsDenseRow(pre, last.b)
    /\ \E c \in Cols(M) : get(pre, last.a, c) # get(pre, last.b, c) /\ ~InTail(M, c)
    /\ \E c \in Cols(M) : get(pre, last.a, c) # get(pre, last.b, c) /\ InTail(M, c)

\* C7: after swap_columns(i, j) of two columns outside the dense tail, columns
\* i and j have exchanged their values in every row, every other column is
\* unchanged, as many cells are non-zero as before, and only the two column
\* tables and the dense rows differ from the matrix before.
C7_SwapColumnsPermutes ==
    (Returned("swap_columns") /\ ~InTail(pre, last.a) /\ ~InTail(pre, last.b)) =>
        /\ \A r \in Rows(M) :
                /\ get(M, r, last.a) = get(pre, r, last.b)
                /\ get(M, r, last.b) = get(pre, r, last.a)
        /\ \A c \in Cols(M) \ {last.a, last.b} :
                \A r \in Rows(M) : get(M, r, c) = get(pre, r, c)
        /\ NonZeroCount(M) = NonZeroCount(pre)
        /\ [M EXCEPT !.logical_col_to_physical = pre.logical_col_to_physical,
                     !.physical_col_to_logical = pre.physical_col_to_logical,
                     !.dense_rows = pre.dense_rows] = pre

\* C7 witness: a swap, with the index enabled, of two columns that read
\* differently in a sparse row and in a dense row.
C7_Witness ==
    /\ Returned("swap_columns")
    /\ ~InTail(pre, last.a) /\ ~InTail(pre, last.b)
    /\ ~M.column_index_disabled
    /\ \E r \in Rows(M) : IsDenseRow(M, r) /\ get(pre, r, last.a) # get(pre, r, last.b)
    /\ \E r \in Rows(M) : ~IsDenseRow(M, r) /\ get(pre, r, last.a) # get(pre, r, last.b)

\* C8: after mul_assign_row(r, s) returns, every column c of row r holds
\* old get(r, c) * s (all zero for s = 0, unchanged for s = 1) and every other
\* row is unchanged.
C8_ScaleCorrect ==
    Returned("mul_assign_row") =>
        /\ \A c \in Cols(M) : get(M, last.a, c) = OctetMul(get(pre, last.a, c), last.b)
        /\ last.b = 0 => \A c \in Cols(M) : get(M, last.a, c) = 0
        /\ last.b = 1 => \A c \in Cols(M) : get(M, last.a, c) = get(pre, last.a, c)
        /\ \A r \in Rows(M) \ {last.a} :
                \A c \in Cols(M) : get(M, r, c) = get(pre, r, c)

\* C8 witness: a scaling by a scalar other than zero and one that changed a
\* dense-tail column and a column outside the tail.
C8_Witness ==
    /\ Returned("mul_assign_row")
    /\ last.b \notin {0, 1}
    /\ \E c \in Cols(M) : InTail(M, c) /\ get(M, last.a, c) # get(pre, last.a, c)
    /\ \E c \in Cols(M) : ~InTail(M, c) /\ get(M, last.a, c) # get(pre, last.a, c)

\* The GF(256) sum over i < n of other.get(r, i) * get(i, c).
RECURSIVE RowTimesColumn(_, _, _, _, _)
RowTimesColumn(other, m, r, c, n) ==
    IF n = 0 THEN 0
    ELSE OctetAdd(RowTimesColumn(other, m, r, c, n - 1),
                  OctetMul(get(other, r, n - 1), get(m, n - 1, c)))

\* C9: after mul_assign_submatrix(other, rows) returns, every column c of every
\* row r < rows holds the sum over i < rows of other.get(r, i) * old get(i, c),
\* and the rows from rows on are unchanged.
C9_SubmatrixProduct ==
    Returned("mul_assign_submatrix") =>
        /\ \A r \in 0..(last.b - 1) :
                \A c \in Cols(M) :
                    get(M, r, c) = RowTimesColumn(last.a, pre, r, c, last.b)
        /\ \A r \in Rows(M) :
                r >= last.b => \A c \in Cols(M) : get(M, r, c) = get(pre, r, c)

\* C9 witness: a product with a 2 x 2 matrix whose four cells are non-zero,
\* on a matrix with a dense tail and the index enabled, that changed a tail
\* column and a column outside the tail of row 0 and left a non-zero row 2.
C9_Witness ==
    /\ Returned("mul_assign_submatrix")
    /\ last.b = 2
    /\ \A r \in 0..1, i \in 0..1 : get(last.a, r, i) # 0
    /\ ~M.column_index_disabled
    /\ \E c \in Cols(M) : InTail(M, c) /\ get(M, 0, c) # get(pre, 0, c)
    /\ \E c \in Cols(M) : ~InTail(M, c) /\ get(M, 0, c) # get(pre, 0, c)
    /\ \E c \in Cols(M) : get(M, 2, c) # 0

\* C10: after hint_compact_dense_rows there is no dense row, every former
\* dense row is a sparse row at its physical index, the sparse rows of before
\* are untouched, and every cell reads what it read before.
C10_CompactPreserves ==
    Returned("hint_compact_dense_rows") =>
        /\ len(M.dense_rows) = 0
        /\ NumSparse(M) = NumSparse(pre) + len(pre.dense_rows)
        /\ \A p \in DOMAIN pre.sparse_elements : M.sparse_elements[p] = pre.sparse_elements[p]
        /\ M.logical_row_to_physical = pre.logical_row_to_physical
        /\ \A c \in Cells(M) : get(M, c[1], c[2]) = get(pre, c[1], c[2])

\* C10 witness: a compaction of a dense row with a non-zero value in a column
\* that was swapped before.
C10_Witness ==
    /\ Returned("hint_compact_dense_rows")
    /\ \E i \in Rows(M), j \in Cols(M) :
            /\ IsDenseRow(pre, i)
            /\ ~InTail(M, j)
            /\ M.logical_col_to_physical[j] # j
            /\ get(M, i, j) # 0

\* C11: the rows get_col_index_iter(col, start_row, end_row) yields for a
\* column outside the dense tail include every logical row of the range that
\* reads non-zero in the column, and every dense row of the range.
C11_ColIndexIterComplete ==
    (Returned("get_col_index_iter") /\ ~InTail(M, last.a)) =>
        \A r \in Rows(M) :
            (/\ last.b <= r
             /\ r < last.c
             /\ (get(M, r, last.a) # 0 \/ IsDenseRow(M, r)))
                => r \in get_col_index_iter(M, last.a, last.b, last.c)

\* C12: count_ones_and_nonzeros(row, start_col, end_col) returns the number of
\* columns of the range that read one and the number that read non-zero.
C12_CountsExact ==
    Returned("count_ones_and_nonzeros") =>
        LET range == {c \in Cols(M) : last.b <= c /\ c < last.c}
        IN  count_ones_and_nonzeros(M, last.a, last.b, last.c) =
                <<Cardinality({c \in range : get(M, last.a, c) = 1}),
                  Cardinality({c \in range : get(M, last.a, c) # 0})>>

\* C12 witness: a count on a sparse row that stores a zero, with a one and
\* another non-zero value in the range.
C12_Witness ==
    /\ Returned("count_ones_and_nonzeros")
    /\ ~IsDenseRow(M, last.a)
    /\ \E k \in DOMAIN M.sparse_elements[M.logical_row_to_physical[last.a]] :
            M.sparse_elements[M.logical_row_to_physical[last.a]][k] = 0
    /\ count_ones_and_nonzeros(M, last.a, last.b, last.c)[1] >= 1
    /\ count_ones_and_nonzeros(M, last.a, last.b, last.c)[2] >= 2

(***************************************************************************)
(* The end-to-end scenario: an all-sparse square matrix is constructed,    *)
(* the identity is set on it (the diagonal cells in any order), the column *)
(* index is enabled, two rows are swapped and one row is fused into        *)
(* another.                                                                *)
(***************************************************************************)
ScenarioSize == 4

Identity(i, j) == IF i = j THEN 1 ELSE 0

ScenarioInit ==
    /\ M = new(ScenarioSize, ScenarioSize, 0, 0, 0)
    /\ pre = M
    /\ last = Call("new", 0, 0, 0, "ok")
    /\ steps = 0
    /\ build = "any"

ScenarioStep(call, after) ==
    /\ M' = after
    /\ pre' = M
    /\ last' = call
    /\ steps' = steps + 1
    /\ UNCHANGED build

ScenarioSet ==
    /\ last.op \in {"new", "set"}
    /\ \E i \in Rows(M) :
           /\ get(M, i, i) = 0
           /\ ScenarioStep(Call("set", i, i, 1, Outcome(set_panics(M, i, i))),
                           set(M, i, i, 1))

ScenarioEnable ==
    /\ last.op \in {"new", "set"}
    /\ \A i \in Rows(M) : get(M, i, i) = 1
    /\ ScenarioStep(Call("enable_column_acccess_acceleration", 0, 0, 0,
                         Outcome(enable_panics(M))),
                    enable_column_acccess_acceleration(M))

ScenarioSwapRows ==
    /\ last.op = "enable_column_acccess_acceleration"
    /\ last.result = "ok"
    /\ \E i \in Rows(M), j \in Rows(M) :
           /\ i < j
           /\ ScenarioStep(Call("swap_rows", i, j, 0, "ok"), swap_rows(M, i, j))

ScenarioFmaRows ==
    /\ last.op = "swap_rows"
    /\ \E dest \in Rows(M), multiplicand \in Rows(M), scalar \in Scalars :
           \E after \in {fma_rows(M, dest, multiplicand, scalar, keepZero) :
                           keepZero \in BOOLEAN} :
               LET call == Call("fma_rows", dest, multiplicand, scalar,
                                Outcome(fma_rows_panics(M, dest, multiplicand, scalar)))
               IN  /\ M' = after
                   /\ pre' = M
                   /\ steps' = steps + 1
                   /\ IF call.result # "ok" \/ verify(after)
                      THEN last' = call /\ UNCHANGED build
                      ELSE \/ last' = call /\ build' = "release"
                           \/ /\ last' = [call EXCEPT !.result = "debug_assert"]
                              /\ UNCHANGED build

ScenarioNext ==
    \/ ScenarioSet
    \/ ScenarioEnable
    \/ ScenarioSwapRows
    \/ ScenarioFmaRows

Scenario == ScenarioInit /\ [][ScenarioNext]_vars

\* The scenario's end: fma_rows(3, 0, one) after swap_rows(0, 3).
ScenarioEnd ==
    /\ last.op = "fma_rows"
    /\ last.a = 3
    /\ last.b = 0
    /\ last.c = 1
    /\ pre.physical_row_to_logical[0] = 3
    /\ pre.physical_row_to_logical[3] = 0

\* C13 as written: at the scenario's end, get(3, c) is the sum of the original
\* row 3 (row 3 of the identity that was set) and the post-swap row 0.
C13_ScenarioAsWritten ==
    ScenarioEnd =>
        \A c \in Cols(M) : get(M, 3, c) = OctetAdd(Identity(3, c), get(pre, 0, c))

\* C13: at the scenario's end the call has returned, the swap had exchanged
\* rows 0 and 3 of the identity, and get(3, c) is the sum of the post-swap
\* row 3 (the original row 0) and the post-swap row 0 (the original row 3):
\* one in columns 0 and 3 and zero elsewhere.
C13_Scenario ==
    ScenarioEnd =>
        /\ last.result = "ok"
        /\ \A c \in Cols(M) :
                /\ get(pre, 3, c) = Identity(0, c)
                /\ get(pre, 0, c) = Identity(3, c)
                /\ get(M, 3, c) = OctetAdd(Identity(0, c), Identity(3, c))
                /\ get(M, 0, c) = Identity(3, c)

\* C13 witness: the scenario's end, where row 3 reads one in columns 0 and 3.
C13_Witness ==
    /\ ScenarioEnd
    /\ last.result = "ok"
    /\ ~M.column_index_disabled
    /\ get(M, 3, 0) = 1
    /\ get(M, 3, 3) = 1
    /\ get(M, 3, 1) = 0

\* The contract violations: the call named by last, made on the matrix m.
ContractViolation(m, call) ==
    \/ /\ call.op = "fma_rows"
       /\ (call.a = call.b \/ IsDenseRow(m, call.b))
    \/ /\ call.op = "mul_assign_submatrix"
       /\ \/ call.b # call.a.height
          \/ call.b # call.a.width
          \/ call.b > m.height
          \/ call.a.num_dense_columns # 0
          \/ len(m.dense_rows) # 0
    \/ /\ call.op = "resize"
       /\ (~m.column_index_disabled \/ call.a > m.height \/ call.b > m.width)
    \/ /\ call.op = "hint_column_dense_and_frozen"
       /\ (m.column_index_disabled \/ call.a # m.width - m.num_dense_columns - 1)
    \/ /\ call.op = "swap_columns"
       /\ (InTail(m, call.a) \/ InTail(m, call.b))
    \/ /\ call.op \in {"count_ones_and_nonzeros", "get_row_iter"}
       /\ call.c > m.width - m.num_dense_columns

\* C14: a call that fails with a contract violation leaves every field of the
\* matrix as it was.
C14_ViolationsAtomic ==
    (last.result # "ok" /\ ContractViolation(pre, last)) => M = pre

\* C15: get_col_index_iter and hint_column_dense_and_frozen return only when
\* the column index is enabled, resize returns only when it is disabled, and
\* the index is disabled after new and after
\* disable_column_acccess_acceleration.
C15_IndexStateGates ==
    /\ (last.op \in {"get_col_index_iter", "hint_column_dense_and_frozen"}
            /\ pre.column_index_disabled)
        => (last.result = "panic" /\ M = pre)
    /\ (last.op = "resize" /\ ~pre.column_index_disabled)
        => (last.result = "panic" /\ M = pre)
    /\ Returned("disable_column_acccess_acceleration") => M.column_index_disabled
    /\ \A tail \in TailHints, dense \in DenseRowHints :
            new(Height, Width, tail, dense[1], dense[2]).column_index_disabled

\* C15 witness: a resize refused on a matrix whose index was enabled by the
\* call before it.
C15_Witness ==
    /\ last.op = "resize"
    /\ last.result = "panic"
    /\ ~pre.column_index_disabled
    /\ last.a <= pre.height
    /\ last.b <= pre.width
    /\ steps = 2

C17_SwapColumnsRejectsTail ==
    (last.op = "swap_columns" /\ (InTail(pre, last.a) \/ InTail(pre, last.b)))
        => (last.result = "panic" /\ M = pre)

\* C18: hint_column_dense_and_frozen(col) returns only for
\* col = width - num_dense_columns - 1, and then num_dense_columns has grown
\* by one, the width is unchanged and the tail is the columns from col on.
C18_FreezeOnlyBoundary ==
    /\ (last.op = "hint_column_dense_and_frozen"
            /\ last.a # pre.width - pre.num_dense_columns - 1)
        => (last.result = "panic" /\ M = pre)
    /\ Returned("hint_column_dense_and_frozen") =>
        /\ last.a = pre.width - pre.num_dense_columns - 1
        /\ M.num_dense_columns = pre.num_dense_columns + 1
        /\ M.width = pre.width
        /\ \A c \in Cols(M) : InTail(M, c) <=> c >= last.a

\* C18 witness: the second of two freezes, one column to the left of the first.
C18_Witness ==
    /\ Returned("hint_column_dense_and_frozen")
    /\ steps = 2
    /\ pre.num_dense_columns >= 1
    /\ M.num_dense_columns = pre.num_dense_columns + 1
    /\ InTail(M, last.a)
    /\ ~InTail(pre, last.a)
    /\ InTail(pre, last.a + 1)

\* The first n entries of the two tables are permutations of 0..n-1 and
\* inverse to each other.
InversePermutations(to_physical, to_logical, n) ==
    /\ len(to_physical) >= n
    /\ len(to_logical) >= n
    /\ \A i \in 0..(n - 1) :
        /\ to_physical[i] \in 0..(n - 1)
        /\ to_logical[i] \in 0..(n - 1)
        /\ to_logical[to_physical[i]] = i
        /\ to_physical[to_logical[i]] = i

\* C19 (rows): after every call the row tables are mutually inverse
\* permutations of 0..height, with the current height.
C19_RowTablesInverse ==
    /\ len(M.logical_row_to_physical) = M.height
    /\ len(M.physical_row_to_logical) = M.height
    /\ InversePermutations(M.logical_row_to_physical, M.physical_row_to_logical, M.height)

\* C19: after every call the row tables are mutually inverse permutations of
\* 0..height and the column tables, read over the current columns, mutually
\* inverse permutations of 0..width, with the current height and width.
C19_TablesInverse ==
    /\ InversePermutations(M.logical_row_to_physical, M.physical_row_to_logical, M.height)
    /\ InversePermutations(M.logical_col_to_physical, M.physical_col_to_logical, M.width)

\* C20: after enable_column_acccess_acceleration returns, from a disabled or
\* an enabled state, the entry of each physical column is exactly the set of
\* physical sparse rows that store an entry for the column, no entry holds
\* the index of a dense row, each entry received its rows in strictly
\* ascending order, and get of every cell is what it was; after
\* disable_column_acccess_acceleration get of every cell is what it was.
C20_EnableRebuilds ==
    /\ Returned("enable_column_acccess_acceleration") =>
        /\ ~M.column_index_disabled
        /\ DOMAIN M.sparse_column_index = 0..(M.width - 1)
        /\ \A c \in DOMAIN M.sparse_column_index :
            LET received == enable_insertions(pre, c, NumSparse(pre))
            IN  /\ M.sparse_column_index[c] =
                        {r \in DOMAIN M.sparse_elements : c \in DOMAIN M.sparse_elements[r]}
                /\ \A r \in M.sparse_column_index[c] : r < NumSparse(M)
                /\ {received[i] : i \in DOMAIN received} = M.sparse_column_index[c]
                /\ \A i, k \in DOMAIN received : i < k => received[i] < received[k]
        /\ Cells(M) = Cells(pre)
        /\ \A c \in Cells(M) : get(M, c[1], c[2]) = get(pre, c[1], c[2])
    /\ Returned("disable_column_acccess_acceleration") =>
        /\ Cells(M) = Cells(pre)
        /\ \A c \in Cells(M) : get(M, c[1], c[2]) = get(pre, c[1], c[2])

\* C20 witness: a rebuild from an enabled state whose index differed, of a
\* matrix with a dense row, giving an entry of two rows or more.
C20_Witness ==
    /\ Returned("enable_column_acccess_acceleration")
    /\ ~pre.column_index_disabled
    /\ pre.sparse_column_index # M.sparse_column_index
    /\ \E i \in Rows(M) : IsDenseRow(M, i)
    /\ \E c \in DOMAIN M.sparse_column_index : Cardinality(M.sparse_column_index[c]) >= 2
    /\ \E c \in Cells(M) : get(M, c[1], c[2]) # 0

\* C20 witness of the second half: a disable of an enabled, populated matrix.
C20_DisableWitness ==
    /\ Returned("disable_column_acccess_acceleration")
    /\ ~pre.column_index_disabled
    /\ \E c \in Cells(M) : get(M, c[1], c[2]) # 0

\* C21: in every state every physical row has a dense-tail array, of length
\* at least num_dense_columns, and the slots at num_dense_columns and beyond
\* (the padding) are zero.
C21_DenseTailLength ==
    /\ DOMAIN M.dense_elements = 0..(M.height - 1)
    /\ \A physical_row \in DOMAIN M.dense_elements :
        /\ len(M.dense_elements[physical_row]) >= M.num_dense_columns
        /\ \A slot \in DOMAIN M.dense_elements[physical_row] :
                slot >= M.num_dense_columns => M.dense_elements[physical_row][slot] = 0

\* C21 witness: a freeze of a matrix whose arrays were full, so that they are
\* extended, moving a non-zero value into the new slot.
C21_Witness ==
    /\ Returned("hint_column_dense_and_frozen")
    /\ \E physical_row \in DOMAIN M.dense_elements :
        /\ len(pre.dense_elements[physical_row]) = pre.num_dense_columns
        /\ len(M.dense_elements[physical_row]) = pre.num_dense_columns + ExtendBy
        /\ M.dense_elements[physical_row][M.num_dense_columns - 1] # 0

\* C21 witness: mul_assign_submatrix replaces a padded array holding a
\* non-zero value by one of exactly num_dense_columns slots.
C21_ReplacedWitness ==
    /\ Returned("mul_assign_submatrix")
    /\ M.num_dense_columns >= 1
    /\ \E physical_row \in DOMAIN M.dense_elements :
        /\ len(pre.dense_elements[physical_row]) > pre.num_dense_columns
        /\ len(M.dense_elements[physical_row]) = M.num_dense_columns
        /\ M.dense_elements[physical_row][0] # 0

\* C21 witness: resize truncates the arrays of a matrix with a dense tail and
\* leaves a tail.
C21_TruncatedWitness ==
    /\ Returned("resize")
    /\ M.height >= 1
    /\ M.num_dense_columns >= 1
    /\ M.num_dense_columns < pre.num_dense_columns
    /\ \E physical_row \in DOMAIN M.dense_elements :
        len(M.dense_elements[physical_row]) = M.num_dense_columns

(***************************************************************************)
(* Shrinking after column swaps: an all-sparse matrix is constructed and   *)
(* populated, columns are swapped, the matrix is resized and the column    *)
(* index is enabled.                                                       *)
(***************************************************************************)
MaxSwaps == 2

ShrinkInit ==
    /\ \E tail \in TailHints :
            /\ M = Populated(new(Height, Width, tail, 0, 0))
            /\ last = Call("new", tail, <<0, 0>>, <<TRUE, FALSE>>, "ok")
    /\ pre = M
    /\ steps = 0
    /\ build = "any"

ShrinkSwapColumns ==
    /\ last.op \in {"new", "swap_columns"}
    /\ last.result = "ok"
    /\ steps < MaxSwaps
    /\ \E i \in Cols(M), j \in Cols(M) :
           /\ i # j
           /\ ScenarioStep(Call("swap_columns", i, j, 0,
                                Outcome(swap_columns_panics(M, i, j))),
                           swap_columns(M, i, j))

ShrinkResize ==
    /\ last.op \in {"new", "swap_columns"}
    /\ last.result = "ok"
    /\ \E new_height \in 1..Height, new_width \in 1..Width :
           ScenarioStep(Call("resize", new_height, new_width, 0,
                             Outcome(resize_panics(M, new_height, new_width))),
                        resize(M, new_height, new_width))

ShrinkEnable ==
    /\ last.op = "resize"
    /\ last.result = "ok"
    /\ ScenarioStep(Call("enable_column_acccess_acceleration", 0, 0, 0,
                         Outcome(enable_panics(M))),
                    enable_column_acccess_acceleration(M))

ShrinkNext ==
    \/ ShrinkSwapColumns
    \/ ShrinkResize
    \/ ShrinkEnable

Shrink == ShrinkInit /\ [][ShrinkNext]_vars

\* C22: in every state every physical column key stored in a sparse row is
\* below the width, and enable_column_acccess_acceleration completes.
C22_StoredKeysInWidth ==
    /\ \A physical_row \in DOMAIN M.sparse_elements :
            \A physical_col \in DOMAIN M.sparse_elements[physical_row] :
                physical_col < M.width
    /\ last.op = "enable_column_acccess_acceleration" => last.result = "ok"

====
